---- MODULE Spec2Model ----
(***************************************************************************)
(* A model of the Manning downloader (src/src/sites/manning.js) and of the *)
(* entry point that drives it (src/unnamed/part_000).                      *)
(*                                                                         *)
(* One run of main() is one behaviour: launch, login(), navigateToLibrary, *)
(* getBooksList(), downloadBooks() with downloadBookFormats() and          *)
(* downloadFormatFromRow() for each entry, then the catch/finally of       *)
(* download() and the exit of main().  pc is the position of the single    *)
(* thread of control.  The site (what the page shows, which waits time     *)
(* out, which calls throw, when a transfer starts) is the environment: its *)
(* answers are drawn with \E inside the step that asks.  JavaScript        *)
(* strings are sequences of one-character strings, so includes(),          *)
(* toLowerCase() and the regular expressions of sanitizeFilename work on   *)
(* characters.                                                             *)
(***************************************************************************)
EXTENDS Integers, Sequences, FiniteSets, TLC

VARIABLES
    pc,                 \* position of the thread of control
    browserOpen,        \* this.browser is launched and not yet closed
    pages,              \* number of pages open in the browsing context
    tokenFile,          \* contents of manning-cookies.json, or NoFile
    ctxCookies,         \* cookies held by the browsing context
    probe,              \* what the stored-cookie probe of login() found
    loginSteps,         \* interactive login steps completed, in order
    typed,              \* what login() has filled into the form, in order
    writeFailed,        \* fs.writeFile of the cookie file threw
    loginResult,        \* "none" until login() settles, then "returned" or "threw"
    listing,            \* rows of #productTable at scan time
    books,              \* result of getBooksList()
    bi,                 \* loop variable i of downloadBooks (0-based)
    attempted,          \* indexes into books that downloadBooks started on
    row,                \* the row downloadBookFormats relocated, or NoRow
    usedDropdownIndex,  \* local of downloadBookFormats
    recorded,           \* outcomes logged by downloadBookFormats
    call,               \* locals of the running downloadFormatFromRow call
    open,               \* indexes of the row's controls whose menu is open
    listeners,          \* waitForEvent('download') promises still armed
    pending,            \* transfers started whose download event is to come
    saves,              \* the download.saveAs calls completed, in order
    unhandled,          \* a listener expired with nobody awaiting it
    chosen,             \* per format, the control index resolution selected
    site,               \* what the site can answer in this run
    sanitizeArg,        \* the argument a sanitizeFilename study starts from
    sanitized           \* the results of its successive applications

vars == <<pc, browserOpen, pages, tokenFile, ctxCookies, probe, loginSteps, typed,
          writeFailed, loginResult, listing, books, bi, attempted, row, usedDropdownIndex,
          recorded, call, open, listeners, pending, saves, unhandled, chosen,
          site, sanitizeArg, sanitized>>

\* the variables of the study of sanitizeFilename, which a run leaves alone
fnVars == <<sanitizeArg, sanitized>>

-----------------------------------------------------------------------------
(* Bounds of the model *)

\* most rows the product table holds at scan time
MaxRows == 2
\* most rows of other tables that precede the product table after a reload
MaxExtraRows == 1
\* most dropdown controls a relocated row holds
MaxControls == 2
\* most pages a click opens beside the primary page
MaxPopups == 1
\* longest tail of the arguments sanitizeFilename is studied on
MaxTail == 4
\* most successive applications of sanitizeFilename to one argument
MaxApplications == 2

-----------------------------------------------------------------------------
(* JavaScript strings as sequences of characters *)

\* String.prototype.includes: sub occurs in s at some offset k
Includes(s, sub) ==
    \E k \in 0..(Len(s) - Len(sub)) : SubSeq(s, k + 1, k + Len(sub)) = sub

\* String.prototype.toLowerCase, on the letters the model's strings use
LowerChar(c) ==
    CASE c = "P" -> "p" [] c = "D" -> "d" [] c = "F" -> "f"
      [] c = "E" -> "e" [] c = "U" -> "u" [] c = "B" -> "b"
      [] c = "A" -> "a" [] c = "K" -> "k" [] c = "I" -> "i"
      [] OTHER -> c

ToLowerCase(s) == [n \in 1..Len(s) |-> LowerChar(s[n])]

\* the format names passed to downloadFormatFromRow
PDF == <<"P", "D", "F">>
EPUB == <<"E", "P", "U", "B">>
Formats == {PDF, EPUB}

-----------------------------------------------------------------------------
(* sanitizeFilename *)

\* the character class [<>:"/\\|?*]
InvalidChars == {"<", ">", ":", "\"", "/", "\\", "|", "?", "*"}
\* the characters \s matches, of those the model's titles use
WhitespaceChars == {" ", "\t"}
\* .substring(0, 150)
FilenameCap == 150

\* .replace(/[<>:"/\\|?*]/g, '_')
ReplaceInvalid(s) ==
    [n \in 1..Len(s) |-> IF s[n] \in InvalidChars THEN "_" ELSE s[n]]

\* replace every maximal run of at least minLen characters of class cls by
\* one "_": position n lies in such a run when some window of minLen
\* positions around it holds characters of cls only; the run's first
\* position gives the "_", its other positions give nothing
ReplaceRuns(s, cls, minLen) ==
    LET InRun(n) ==
            \E a \in (n - minLen + 1)..n :
                /\ a >= 1
                /\ a + minLen - 1 <= Len(s)
                /\ \A m \in a..(a + minLen - 1) : s[m] \in cls
        First(n) == n = 1 \/ s[n - 1] \notin cls
        Kept(n) == ~InRun(n) \/ First(n)
        kept == SelectSeq([n \in 1..Len(s) |-> n], Kept)
    IN  [k \in 1..Len(kept) |-> IF InRun(kept[k]) THEN "_" ELSE s[kept[k]]]

RECURSIVE StripLeading(_, _)
StripLeading(s, cls) ==
    IF s # <<>> /\ s[1] \in cls THEN StripLeading(Tail(s), cls) ELSE s

RECURSIVE StripTrailing(_, _)
StripTrailing(s, cls) ==
    IF s # <<>> /\ s[Len(s)] \in cls
    THEN StripTrailing(SubSeq(s, 1, Len(s) - 1), cls) ELSE s

\* the identity in place of substring(0, 150)
Substring_Whole(s, from, to) == s

\* String.prototype.substring(from, to) for 0 <= from <= to
Substring(s, from, to) ==
    SubSeq(s, from + 1, IF to < Len(s) THEN to ELSE Len(s))

UnknownBook == <<"U", "n", "k", "n", "o", "w", "n", "_", "B", "o", "o", "k">>

sanitizeFilename(filename) ==
    IF filename = <<>> THEN UnknownBook
    ELSE LET a == ReplaceInvalid(filename)
             b == ReplaceRuns(a, WhitespaceChars, 1)
             c == ReplaceRuns(b, {"_"}, 2)
             d == StripTrailing(StripLeading(c, {"_"}), {"_"})
             e == StripTrailing(StripLeading(d, WhitespaceChars), WhitespaceChars)
         IN  Substring(e, 0, FilenameCap)

-----------------------------------------------------------------------------
(* The cookie file: JSON.stringify and JSON.parse on arrays of cookies *)

NoFile == <<"no file">>

Cookie(n, v) == [name |-> n, value |-> v]

RECURSIVE StringifyItems(_)
StringifyItems(cs) ==
    IF cs = <<>> THEN <<>>
    ELSE <<"{", cs[1].name, cs[1].value, "}">>
         \o (IF Len(cs) > 1 THEN <<",">> ELSE <<>>)
         \o StringifyItems(Tail(cs))

\* JSON.stringify(cookies, null, 2), as a sequence of JSON tokens
JSONStringify(cs) == <<"[">> \o StringifyItems(cs) \o <<"]">>

ParseError == [ok |-> FALSE, value |-> <<>>]

RECURSIVE ParseItems(_, _)
ParseItems(ts, acc) ==
    IF Len(ts) >= 5 /\ ts[1] = "{" /\ ts[4] = "}"
    THEN LET item == Cookie(ts[2], ts[3])
             rest == SubSeq(ts, 5, Len(ts))
         IN  IF rest = <<"]">> THEN [ok |-> TRUE, value |-> Append(acc, item)]
             ELSE IF rest[1] = "," THEN ParseItems(Tail(rest), Append(acc, item))
             ELSE ParseError
    ELSE ParseError

\* JSON.parse of the file's text; ok = FALSE stands for the SyntaxError
JSONParse(ts) ==
    IF ts = <<"[", "]">> THEN [ok |-> TRUE, value |-> <<>>]
    ELSE IF ts # <<>> /\ ts[1] = "[" THEN ParseItems(Tail(ts), <<>>)
    ELSE ParseError

\* the cookies a previous run stored
OldCookies == <<Cookie("sid", "old"), Cookie("theme", "dark")>>
\* what an interrupted write leaves behind
TruncatedFile == <<"[", "{", "sid">>
\* the cookies the site may set on a fresh interactive login
NewSessions == { <<Cookie("sid", "new")>>,
                 <<Cookie("sid", "new"), Cookie("cart", "1")>> }

\* the context's cookie jar after cookies cs are set: same-named cookies are
\* replaced, others kept
SetCookies(jar, cs) ==
    LET names == {cs[n].name : n \in 1..Len(cs)}
        keep(c) == c.name \notin names
    IN  SelectSeq(jar, keep) \o cs

-----------------------------------------------------------------------------
(* Links, hrefs and the scan of one listing row (getBooksList) *)

\* a missing attribute, and the initial null of pdfUrl / epubUrl
Null == <<"null">>
\* JavaScript truthiness of a string-or-null value
Truthy(s) == s # Null /\ s # <<>>

StrPdfLower == <<"p", "d", "f">>
StrEpubLower == <<"e", "p", "u", "b">>
StrPdfDir == <<"/", "p", "d", "f", "/">>
StrPdfExt == <<".", "p", "d", "f">>
StrEpubDir == <<"/", "e", "p", "u", "b", "/">>
StrEpubExt == <<".", "e", "p", "u", "b">>
StrDownload == <<"/", "d", "o", "w", "n", "l", "o", "a", "d">>
StrProductId == <<"p", "r", "o", "d", "u", "c", "t", "I", "d", "=">>
StrFormatParam == <<"d", "o", "w", "n", "l", "o", "a", "d", "F", "o", "r", "m", "a", "t", "=">>
StrFormatPdf == StrFormatParam \o PDF
StrFormatEpub == StrFormatParam \o EPUB

\* hrefs of the links the model's pages hold
PdfHref == StrDownload \o <<"?">> \o StrProductId \o <<"7", "&">> \o StrFormatPdf
EpubHref == StrDownload \o <<"?">> \o StrProductId \o <<"7", "&">> \o StrFormatEpub
GenericHref == StrDownload \o <<"?">> \o StrProductId \o <<"7">>
BookHref == <<"/", "b", "o", "o", "k", "s", "/", "g", "o">>

Link(href, className) ==
    [href |-> href, className |-> className, title |-> Null, ariaLabel |-> Null]

\* await link.getAttribute(name) || ''
AttrOrEmpty(v) == IF Truthy(v) THEN v ELSE <<>>

NoFormats == [hasPdf |-> FALSE, hasEpub |-> FALSE, pdfUrl |-> Null, epubUrl |-> Null]

\* the body of the loop over a cell's links: one link's effect on
\* hasPdf / hasEpub / pdfUrl / epubUrl
ScanLink(acc, link) ==
    LET href == AttrOrEmpty(link.href)
        allAttributes ==
            ToLowerCase(href \o <<" ">> \o AttrOrEmpty(link.className) \o <<" ">>
                        \o AttrOrEmpty(link.title) \o <<" ">>
                        \o AttrOrEmpty(link.ariaLabel))
        a1 == IF \/ Includes(allAttributes, StrPdfLower)
                 \/ Includes(href, StrPdfDir)
                 \/ Includes(href, StrPdfExt)
                 \/ Includes(href, StrFormatPdf)
              THEN [acc EXCEPT !.hasPdf = TRUE, !.pdfUrl = href]
              ELSE acc
        a2 == IF \/ Includes(allAttributes, StrEpubLower)
                 \/ Includes(href, StrEpubDir)
                 \/ Includes(href, StrEpubExt)
                 \/ Includes(href, StrFormatEpub)
              THEN [a1 EXCEPT !.hasEpub = TRUE, !.epubUrl = href]
              ELSE a1
        g1 == IF ~Truthy(a2.pdfUrl)
              THEN [a2 EXCEPT !.hasPdf = TRUE, !.pdfUrl = href]
              ELSE a2
        g2 == IF ~Truthy(g1.epubUrl)
              THEN [g1 EXCEPT !.hasEpub = TRUE, !.epubUrl = href]
              ELSE g1
    IN  IF Includes(href, StrDownload) /\ Includes(href, StrProductId)
        THEN IF Includes(href, StrFormatPdf) /\ ~Truthy(a2.pdfUrl)
             THEN [a2 EXCEPT !.hasPdf = TRUE, !.pdfUrl = href]
             ELSE IF Includes(href, StrFormatEpub) /\ ~Truthy(a2.epubUrl)
             THEN [a2 EXCEPT !.hasEpub = TRUE, !.epubUrl = href]
             ELSE IF ~Includes(href, StrFormatParam)
             THEN g2
             ELSE a2
        ELSE a2

RECURSIVE ScanLinks(_, _)
\* the loops over the row's cells and their links, in document order
ScanLinks(acc, links) ==
    IF links = <<>> THEN acc
    ELSE ScanLinks(ScanLink(acc, links[1]), Tail(links))

Digit(n) == CASE n = 0 -> "0" [] n = 1 -> "1" [] n = 2 -> "2" [] n = 3 -> "3"
              [] n = 4 -> "4" [] n = 5 -> "5" [] n = 6 -> "6" [] n = 7 -> "7"
              [] n = 8 -> "8" [] OTHER -> "9"

\* String.prototype.trim
Trim(s) == StripTrailing(StripLeading(s, WhitespaceChars), WhitespaceChars)

\* the placeholder title `Book ${i + 1}`
BookN(i) == <<"B", "o", "o", "k", " ", Digit(i + 1)>>

\* the entry pushed for listing row r at position i (0-based); r.title is
\* what the title extraction finds, <<>> when it finds nothing
ScanRow(r, i) ==
    LET f == ScanLinks(NoFormats, r.links)
        title == IF r.title = <<>> THEN BookN(i) ELSE r.title
    IN  [title |-> Trim(title), hasPdf |-> f.hasPdf, hasEpub |-> f.hasEpub,
         pdfUrl |-> f.pdfUrl, epubUrl |-> f.epubUrl, index |-> i]

\* the loop gives up at the first row whose processing throws
ScanRows_StopsAtFailure(rows, i) ==
    LET Kept(n) == /\ n > i
                   /\ ~rows[n].loading
                   /\ \A m \in (i + 1)..n : ~rows[m].throws
        kept == SelectSeq([n \in 1..Len(rows) |-> n], Kept)
    IN  [k \in 1..Len(kept) |-> ScanRow(rows[kept[k]], kept[k] - 1)]

RECURSIVE ScanRows(_, _)
\* the loop of getBooksList over bookRows from position i on: a loading row
\* is skipped, a row whose processing throws is skipped by the catch
ScanRows(rows, i) ==
    IF i >= Len(rows) THEN <<>>
    ELSE LET r == rows[i + 1]
         IN  (IF r.loading \/ r.throws THEN <<>> ELSE <<ScanRow(r, i)>>)
             \o ScanRows(rows, i + 1)

\* listing rows of the model's pages
ListingRow(title, links) ==
    [loading |-> FALSE, throws |-> FALSE, title |-> title, links |-> links]
TitleGo == <<"G", "o", ":", " ", "2">>
LoadingRow == [loading |-> TRUE, throws |-> FALSE, title |-> <<>>, links |-> <<>>]
ThrowingRow == [loading |-> FALSE, throws |-> TRUE, title |-> <<>>, links |-> <<>>]
BothRow == ListingRow(TitleGo, <<Link(BookHref, Null), Link(PdfHref, Null), Link(EpubHref, Null)>>)
PdfOnlyRow == ListingRow(<<>>, <<Link(PdfHref, Null)>>)
GenericRow == ListingRow(TitleGo, <<Link(GenericHref, Null)>>)
FlagOnlyRow == ListingRow(TitleGo, <<Link(Null, StrPdfLower)>>)
NoLinksRow == ListingRow(TitleGo, <<>>)
ListingRows == {LoadingRow, ThrowingRow, BothRow, PdfOnlyRow, GenericRow,
                FlagOnlyRow, NoLinksRow}

SeqsUpTo(S, n) == UNION {[1..m -> S] : m \in 0..n}

-----------------------------------------------------------------------------
(* The relocated row and its dropdown controls (downloadFormatFromRow) *)

\* a dropdown control: its textContent and the hrefs of the links in its menu
Control(label, menu) == [label |-> label, menu |-> menu]

LabelNone == <<>>
LabelPdf == <<"p", "d", "f">>
LabelEpub == <<"e", "p", "u", "b">>
LabelBoth == <<"P", "D", "F", "/", "e", "P", "u", "b">>
\* the controls of the model's rows: labelled for one format with that
\* format's link, with the other's or with none; labelled for both; unlabelled
Controls == {Control(LabelPdf, {PdfHref}), Control(LabelEpub, {EpubHref}),
             Control(LabelPdf, {}), Control(LabelEpub, {PdfHref}),
             Control(LabelBoth, {PdfHref, EpubHref}),
             Control(LabelNone, {PdfHref}), Control(LabelNone, {EpubHref})}

\* a row as downloadBookFormats finds it after the reload: its controls in
\* document order; lazy = the links of a menu are in the document only while
\* the menu is open (otherwise they are always there, hidden while it is
\* closed); pos = the row's position in the product table, -1 for a row of
\* another table
Row(controls, lazy, pos) == [controls |-> controls, lazy |-> lazy, pos |-> pos]
NoRow == [controls |-> <<>>, lazy |-> FALSE, pos |-> -2]
Layouts == {[controls |-> cs, lazy |-> l] :
                cs \in SeqsUpTo(Controls, MaxControls), l \in BOOLEAN}

\* the row with a "pdf" control and an "epub" control, each showing its link
NaturalLayout ==
    [controls |-> <<Control(LabelPdf, {PdfHref}), Control(LabelEpub, {EpubHref})>>,
     lazy |-> FALSE]
EmptyLayout == [controls |-> <<>>, lazy |-> FALSE]

\* page.locator(`a[href="${url}"]`).count() > 0 on the row r with menus o open
LinkExists(r, o, url) ==
    \E c \in 1..Len(r.controls) :
        url \in r.controls[c].menu /\ (~r.lazy \/ (c - 1) \in o)

\* the link is displayed: it sits in a menu that is open
LinkVisible(r, o, url) ==
    \E c \in 1..Len(r.controls) : url \in r.controls[c].menu /\ (c - 1) \in o

-----------------------------------------------------------------------------
(* The sites a run is explored against.  A site fixes the choices the      *)
(* environment has: the sessions an interactive login may create, the      *)
(* listings the product table may show, the layouts a relocated row may    *)
(* have.  The three families vary one of these each.                       *)

Listings == SeqsUpTo(ListingRows, MaxRows) \ {<<>>}

Sites == {"session", "catalog", "rows"}

\* the sessions an interactive login may create
SiteSessions(s) ==
    IF s = "session" THEN NewSessions ELSE {<<Cookie("sid", "new")>>}
\* the listings the product table may show at scan time
SiteListings(s) ==
    IF s = "catalog" THEN Listings ELSE {<<BothRow>>}
\* the layouts a relocated row of the product table may have
SiteLayouts(s) ==
    IF s = "rows" THEN Layouts
    ELSE IF s = "catalog" THEN {NaturalLayout, EmptyLayout}
    ELSE {NaturalLayout}
\* the cookie files a run may find
SiteTokenFiles(s) ==
    IF s = "session" THEN {NoFile, JSONStringify(OldCookies), TruncatedFile}
    ELSE {NoFile}

-----------------------------------------------------------------------------
(* The run *)

NoCall == [format |-> <<>>]

\* the values downloadFormatFromRow returns: an object, or a bare boolean
RetObject(success, dropdownIndex) ==
    [isObject |-> TRUE, success |-> success, dropdownIndex |-> dropdownIndex]
RetBoolean(b) == [isObject |-> FALSE, success |-> b, dropdownIndex |-> -1]
NoRet == [isObject |-> FALSE, success |-> FALSE, dropdownIndex |-> -2]
\* result.success as the caller reads it: undefined on a boolean
ResultSuccess(r) == r.isObject /\ r.success
\* result.dropdownIndex as the caller reads it
ResultDropdownIndex(r) == r.dropdownIndex

NoneChosen == [f \in Formats |-> -1]

Init ==
    /\ pc = "start"
    /\ browserOpen = FALSE
    /\ pages = 0
    /\ site \in Sites
    /\ tokenFile \in SiteTokenFiles(site)
    /\ ctxCookies = <<>>
    /\ probe = "none"
    /\ loginSteps = <<>>
    /\ typed = <<>>
    /\ writeFailed = FALSE
    /\ loginResult = "none"
    /\ listing = <<>>
    /\ books = <<>>
    /\ bi = 0
    /\ attempted = <<>>
    /\ row = NoRow
    /\ usedDropdownIndex = -1
    /\ recorded = <<>>
    /\ call = NoCall
    /\ open = {}
    /\ listeners = {}
    /\ pending = {}
    /\ saves = <<>>
    /\ unhandled = FALSE
    /\ chosen = NoneChosen
    /\ sanitizeArg = <<>>
    /\ sanitized = <<>>

loginVars == <<tokenFile, ctxCookies, probe, loginSteps, typed, writeFailed,
               loginResult>>

\* the credentials download() is called with
Email == "reader@example.org"
Password == "correct horse"
scanVars == <<listing, books>>
loopVars == <<bi, attempted, row, usedDropdownIndex, recorded, chosen>>
callVars == <<call, open, listeners, pending, saves, unhandled>>

\* download(): chromium.launch, newContext, newPage
Launch ==
    /\ pc = "start"
    /\ \/ pc' = "login" /\ browserOpen' = TRUE /\ pages' = 1
       \/ pc' = "catch" /\ browserOpen' = FALSE /\ pages' = 0
       \/ pc' = "catch" /\ browserOpen' = TRUE /\ pages' = 0
    /\ UNCHANGED <<loginVars, scanVars, loopVars, callVars, site, fnVars>>

\* the probe's answer is not looked at: login() returns once cookies are loaded
LoginLoadCookies_TrustsCookies ==
    /\ pc = "login"
    /\ IF tokenFile = NoFile
       THEN /\ probe' = "nofile"
            /\ pc' = "login_goto"
            /\ UNCHANGED ctxCookies
       ELSE LET parsed == JSONParse(tokenFile)
            IN  \/ /\ probe' = "error"
                   /\ pc' = "login_goto"
                   /\ UNCHANGED ctxCookies
                \/ /\ parsed.ok
                   /\ ctxCookies' = SetCookies(ctxCookies, parsed.value)
                   /\ \/ probe' = "error" /\ pc' = "login_goto"
                      \/ probe' = "absent" /\ pc' = "navigate"
                      \/ probe' = "present" /\ pc' = "navigate"
    /\ loginResult' = IF pc' = "navigate" THEN "returned" ELSE loginResult
    /\ UNCHANGED <<browserOpen, pages, tokenFile, loginSteps, typed, writeFailed,
                   scanVars, loopVars, callVars, site, fnVars>>

\* a stored file that does not lead to a session is deleted
LoginLoadCookies_DropsBadFile ==
    /\ pc = "login"
    /\ IF tokenFile = NoFile
       THEN /\ probe' = "nofile"
            /\ pc' = "login_goto"
            /\ UNCHANGED <<ctxCookies, tokenFile>>
       ELSE LET parsed == JSONParse(tokenFile)
            IN  \/ /\ probe' = "error"
                   /\ pc' = "login_goto"
                   /\ tokenFile' = NoFile
                   /\ UNCHANGED ctxCookies
                \/ /\ parsed.ok
                   /\ ctxCookies' = SetCookies(ctxCookies, parsed.value)
                   /\ \/ probe' = "error" /\ pc' = "login_goto" /\ tokenFile' = NoFile
                      \/ probe' = "absent" /\ pc' = "login_goto" /\ tokenFile' = NoFile
                      \/ probe' = "present" /\ pc' = "navigate" /\ UNCHANGED tokenFile
    /\ loginResult' = IF pc' = "navigate" THEN "returned" ELSE loginResult
    /\ UNCHANGED <<browserOpen, pages, loginSteps, typed, writeFailed,
                   scanVars, loopVars, callVars, site, fnVars>>

\* login(): the stored cookies are loaded and probed
LoginLoadCookies ==
    /\ pc = "login"
    /\ IF tokenFile = NoFile
       THEN /\ probe' = "nofile"
            /\ pc' = "login_goto"
            /\ UNCHANGED ctxCookies
       ELSE LET parsed == JSONParse(tokenFile)
            IN  \/ /\ probe' = "error"
                   /\ pc' = "login_goto"
                   /\ UNCHANGED ctxCookies
                \/ /\ parsed.ok
                   /\ ctxCookies' = SetCookies(ctxCookies, parsed.value)
                   /\ \/ probe' = "error" /\ pc' = "login_goto"
                      \/ probe' = "absent" /\ pc' = "login_goto"
                      \/ probe' = "present" /\ pc' = "navigate"
    /\ loginResult' = IF pc' = "navigate" THEN "returned" ELSE loginResult
    /\ UNCHANGED <<browserOpen, pages, tokenFile, loginSteps, typed, writeFailed,
                   scanVars, loopVars, callVars, site, fnVars>>

\* one interactive step of login() at position at: it completes and is
\* appended to loginSteps, or it throws
LoginStep(at, step, next) ==
    /\ pc = at
    /\ \/ /\ loginSteps' = Append(loginSteps, step)
          /\ typed' = IF step = "email" THEN Append(typed, Email)
                      ELSE IF step = "password" THEN Append(typed, Password)
                      ELSE typed
          /\ pc' = next
          /\ UNCHANGED loginResult
       \/ pc' = "catch" /\ loginResult' = "threw" /\ UNCHANGED <<loginSteps, typed>>
    /\ UNCHANGED <<browserOpen, pages, tokenFile, ctxCookies, probe, writeFailed,
                   scanVars, loopVars, callVars, site, fnVars>>

\* page.goto of the login page
LoginGoto ==
    /\ pc = "login_goto"
    /\ \/ pc' = "login_form" /\ UNCHANGED loginResult
       \/ pc' = "catch" /\ loginResult' = "threw"
    /\ UNCHANGED <<browserOpen, pages, tokenFile, ctxCookies, probe, loginSteps,
                   typed, writeFailed, scanVars, loopVars, callVars, site, fnVars>>
\* waitForSelector of the login form
LoginWaitForm == LoginStep("login_form", "form", "login_email")
\* the three fills tried for the email; the step throws when the last throws
LoginFillEmail == LoginStep("login_email", "email", "login_password")
\* the three fills tried for the password
LoginFillPassword == LoginStep("login_password", "password", "login_submit")
\* the click on the log-in button
LoginSubmit == LoginStep("login_submit", "submit", "login_wait")

\* waitForURL('**/dashboard**'): the site has opened a session, or the wait
\* times out
LoginWaitDashboard ==
    /\ pc = "login_wait"
    /\ \/ \E s \in SiteSessions(site) :
             /\ ctxCookies' = SetCookies(ctxCookies, s)
             /\ loginSteps' = Append(loginSteps, "dashboard")
             /\ pc' = "login_save"
             /\ UNCHANGED loginResult
       \/ pc' = "catch" /\ loginResult' = "threw"
                        /\ UNCHANGED <<ctxCookies, loginSteps>>
    /\ UNCHANGED <<browserOpen, pages, tokenFile, probe, typed, writeFailed,
                   scanVars, loopVars, callVars, site, fnVars>>

\* what was typed into the form is stored with the cookies
LoginSaveCookies_StoresLogin ==
    /\ pc = "login_save"
    /\ \/ /\ tokenFile' = JSONStringify(ctxCookies \o <<Cookie(typed[1], typed[2])>>)
          /\ loginSteps' = Append(loginSteps, "token")
          /\ pc' = "navigate"
          /\ loginResult' = "returned"
          /\ UNCHANGED writeFailed
       \/ /\ writeFailed' = TRUE
          /\ tokenFile' \in {tokenFile, <<>>}
          /\ pc' = "catch"
          /\ loginResult' = "threw"
          /\ UNCHANGED loginSteps
    /\ UNCHANGED <<browserOpen, pages, ctxCookies, probe, typed,
                   scanVars, loopVars, callVars, site, fnVars>>

\* the cookies are written only when no file exists yet
LoginSaveCookies_KeepsExisting ==
    /\ pc = "login_save"
    /\ \/ /\ tokenFile' = IF tokenFile = NoFile THEN JSONStringify(ctxCookies)
                          ELSE tokenFile
          /\ loginSteps' = Append(loginSteps, "token")
          /\ pc' = "navigate"
          /\ loginResult' = "returned"
          /\ UNCHANGED writeFailed
       \/ /\ writeFailed' = TRUE
          /\ tokenFile' \in {tokenFile, <<>>}
          /\ pc' = "catch"
          /\ loginResult' = "threw"
          /\ UNCHANGED loginSteps
    /\ UNCHANGED <<browserOpen, pages, ctxCookies, probe, typed,
                   scanVars, loopVars, callVars, site, fnVars>>

\* context.cookies(), JSON.stringify, fs.writeFile; a failing write throws,
\* leaving the file as it was or emptied
LoginSaveCookies ==
    /\ pc = "login_save"
    /\ \/ /\ tokenFile' = JSONStringify(ctxCookies)
          /\ loginSteps' = Append(loginSteps, "token")
          /\ pc' = "navigate"
          /\ loginResult' = "returned"
          /\ UNCHANGED writeFailed
       \/ /\ writeFailed' = TRUE
          /\ tokenFile' \in {tokenFile, <<>>}
          /\ pc' = "catch"
          /\ loginResult' = "threw"
          /\ UNCHANGED loginSteps
    /\ UNCHANGED <<browserOpen, pages, ctxCookies, probe, typed,
                   scanVars, loopVars, callVars, site, fnVars>>

\* navigateToLibrary(): three bounded waits, each of which may time out
navigateToLibrary ==
    /\ pc = "navigate"
    /\ pc' \in {"scan", "catch"}
    /\ UNCHANGED <<browserOpen, pages, loginVars, scanVars, loopVars, callVars, site, fnVars>>

\* every listing with the list getBooksList builds from it
Scans == {<<l, ScanRows(l, 0)>> : l \in Listings}

\* getBooksList(): the rows appear and are scanned, or the wait times out
getBooksList ==
    /\ pc = "scan"
    /\ \/ \E scan \in Scans :
             /\ scan[1] \in SiteListings(site)
             /\ listing' = scan[1]
             /\ books' = scan[2]
             /\ pc' = "books"
       \/ pc' = "catch" /\ UNCHANGED scanVars
    /\ UNCHANGED <<browserOpen, pages, loginVars, loopVars, callVars, site, fnVars>>

-----------------------------------------------------------------------------
(* downloadBooks and downloadBookFormats *)

Book == books[bi + 1]

\* downloadBooks: the loop test and the call of downloadBookFormats(book)
downloadBooks ==
    /\ pc = "books"
    /\ IF bi < Len(books)
       THEN attempted' = Append(attempted, bi) /\ pc' = "dbf_goto"
       ELSE pc' = "finally_ok" /\ UNCHANGED attempted
    /\ UNCHANGED <<browserOpen, pages, loginVars, scanVars, bi, row,
                   usedDropdownIndex, recorded, chosen, callVars, site, fnVars>>

\* downloadBooks: the pause after downloadBookFormats returned, and i++
downloadBooksNext ==
    /\ pc = "books_next"
    /\ bi' = bi + 1
    /\ pc' = "books"
    /\ UNCHANGED <<browserOpen, pages, loginVars, scanVars, attempted, row,
                   usedDropdownIndex, recorded, chosen, callVars, site, fnVars>>

\* downloadBookFormats: reload the dashboard, wait for the rows, take
\* bookRows[book.index] of all 'table tbody tr'.  The reloaded page shows
\* extra rows of other tables before n rows of the product table.
dbfRelocate ==
    /\ pc = "dbf_goto"
    /\ \/ pc' = "catch" /\ UNCHANGED <<row, usedDropdownIndex, open, chosen>>
       \/ \E extra \in 0..MaxExtraRows, n \in 1..MaxRows, lay \in SiteLayouts(site) :
             IF Book.index >= extra + n
             THEN /\ pc' = "books_next"
                  /\ row' = NoRow
                  /\ open' = {}
                  /\ UNCHANGED <<usedDropdownIndex, chosen>>
             ELSE /\ row' = IF Book.index < extra
                            THEN Row(<<>>, FALSE, -1)
                            ELSE Row(lay.controls, lay.lazy, Book.index - extra)
                  /\ usedDropdownIndex' = -1
                  /\ open' = {}
                  /\ chosen' = NoneChosen
                  /\ pc' = "dbf_pdf"
    /\ UNCHANGED <<browserOpen, pages, loginVars, scanVars, bi, attempted,
                   recorded, call, listeners, pending, saves, unhandled, site, fnVars>>

\* the locals of a downloadFormatFromRow(book, format, row, exclude) call
NoTransfer == <<-1, <<>>>>
NewCall(format, exclude) ==
    [format |-> format, excludeDropdownIndex |-> exclude, i |-> 0,
     correctDropdownIndex |-> -1, armed |-> FALSE, got |-> NoTransfer,
     clicked |-> FALSE, clickedWith |-> {}, activated |-> <<>>,
     retried |-> FALSE, finished |-> FALSE, saved |-> FALSE,
     timedOut |-> FALSE, closed |-> 0, caught |-> FALSE, snapshots |-> 0,
     ret |-> NoRet]

\* if (book.hasPdf && book.pdfUrl) downloadFormatFromRow(book, 'PDF', ...)
dbfPdf ==
    /\ pc = "dbf_pdf"
    /\ IF Book.hasPdf /\ Truthy(Book.pdfUrl)
       THEN call' = NewCall(PDF, usedDropdownIndex) /\ pc' = "dfr_start"
       ELSE pc' = "dbf_epub" /\ UNCHANGED call
    /\ UNCHANGED <<browserOpen, pages, loginVars, scanVars, loopVars, open,
                   listeners, pending, saves, unhandled, site, fnVars>>

Outcome(entry, format, success) ==
    [entry |-> entry, format |-> format, success |-> success]

\* a PDF attempt that failed ends the entry
dbfPdfResult_FailureEndsEntry ==
    /\ pc = "dfr_ret"
    /\ call.format = PDF
    /\ usedDropdownIndex' = IF ResultSuccess(call.ret)
                            THEN ResultDropdownIndex(call.ret)
                            ELSE usedDropdownIndex
    /\ recorded' = Append(recorded, Outcome(bi, PDF, ResultSuccess(call.ret)))
    /\ call' = NoCall
    /\ pc' = IF ResultSuccess(call.ret) THEN "dbf_epub" ELSE "books_next"
    /\ UNCHANGED <<browserOpen, pages, loginVars, scanVars, bi, attempted, row,
                   chosen, open, listeners, pending, saves, unhandled, site, fnVars>>

\* the PDF result: usedDropdownIndex is set on result.success, and
\* PDF SUCCESS or PDF FAILED is logged
dbfPdfResult ==
    /\ pc = "dfr_ret"
    /\ call.format = PDF
    /\ usedDropdownIndex' = IF ResultSuccess(call.ret)
                            THEN ResultDropdownIndex(call.ret)
                            ELSE usedDropdownIndex
    /\ recorded' = Append(recorded, Outcome(bi, PDF, ResultSuccess(call.ret)))
    /\ call' = NoCall
    /\ pc' = "dbf_epub"
    /\ UNCHANGED <<browserOpen, pages, loginVars, scanVars, bi, attempted, row,
                   chosen, open, listeners, pending, saves, unhandled, site, fnVars>>

\* if (book.hasEpub && book.epubUrl) downloadFormatFromRow(book, 'EPUB', ...)
dbfEpub ==
    /\ pc = "dbf_epub"
    /\ IF Book.hasEpub /\ Truthy(Book.epubUrl)
       THEN call' = NewCall(EPUB, usedDropdownIndex) /\ pc' = "dfr_start"
       ELSE pc' = "books_next" /\ UNCHANGED call
    /\ UNCHANGED <<browserOpen, pages, loginVars, scanVars, loopVars, open,
                   listeners, pending, saves, unhandled, site, fnVars>>

\* the EPUB result: EPUB SUCCESS or EPUB FAILED is logged, then the pause
dbfEpubResult ==
    /\ pc = "dfr_ret"
    /\ call.format = EPUB
    /\ recorded' = Append(recorded, Outcome(bi, EPUB, ResultSuccess(call.ret)))
    /\ call' = NoCall
    /\ pc' = "books_next"
    /\ UNCHANGED <<browserOpen, pages, loginVars, scanVars, bi, attempted, row,
                   usedDropdownIndex, chosen, open, listeners, pending, saves,
                   unhandled, site, fnVars>>

-----------------------------------------------------------------------------
(* downloadFormatFromRow *)

\* format === 'PDF' ? book.pdfUrl : book.epubUrl
FormatUrl(b, format) == IF format = PDF THEN b.pdfUrl ELSE b.epubUrl

\* book.title || `Book_${book.index || 'Unknown'}`
BookTitle(b) ==
    IF Truthy(b.title) THEN b.title
    ELSE <<"B", "o", "o", "k", "_">>
         \o (IF b.index = 0 THEN <<"U", "n", "k", "n", "o", "w", "n">>
             ELSE <<Digit(b.index)>>)

\* `${sanitizedTitle}.${format.toLowerCase()}`
Filename(b, format) ==
    sanitizeFilename(BookTitle(b)) \o <<".">> \o ToLowerCase(format)

\* the text filter left out: no control is passed over for its text
LabelMismatch_Never(dropdownText, format) == FALSE

\* dropdownText && !dropdownText.toLowerCase().includes(format.toLowerCase())
LabelMismatch(dropdownText, format) ==
    /\ Truthy(dropdownText)
    /\ ~Includes(ToLowerCase(dropdownText), ToLowerCase(format))

TransferId == <<bi, call.format>>
Url == FormatUrl(Book, call.format)
FailObject == RetObject(FALSE, -1)

dfrFrame == <<browserOpen, loginVars, scanVars, bi, attempted, row,
              usedDropdownIndex, recorded, unhandled, site, fnVars>>

\* the call returns r to downloadBookFormats
Return(r) == call' = [call EXCEPT !.ret = r] /\ pc' = "dfr_ret"

\* the early returns give the bare false of the later return statements
dfrStart_ReturnsFalse ==
    /\ pc = "dfr_start"
    /\ IF ~Truthy(Url)
       THEN Return(RetBoolean(FALSE)) /\ UNCHANGED open
       ELSE \/ pc' = "dfr_catch" /\ UNCHANGED <<call, open>>
            \/ IF Len(row.controls) = 0
               THEN Return(RetBoolean(FALSE)) /\ UNCHANGED open
               ELSE /\ open' = {}
                    /\ pc' = "dfr_loop"
                    /\ UNCHANGED call
    /\ UNCHANGED <<dfrFrame, pages, listeners, pending, saves, chosen>>

\* lines 487-524: no url or no controls returns the failure object;
\* otherwise the menus are closed by a click on the body
dfrStart ==
    /\ pc = "dfr_start"
    /\ IF ~Truthy(Url)
       THEN Return(FailObject) /\ UNCHANGED open
       ELSE \/ pc' = "dfr_catch" /\ UNCHANGED <<call, open>>
            \/ IF Len(row.controls) = 0
               THEN Return(FailObject) /\ UNCHANGED open
               ELSE /\ open' = {}
                    /\ pc' = "dfr_loop"
                    /\ UNCHANGED call
    /\ UNCHANGED <<dfrFrame, pages, listeners, pending, saves, chosen>>

\* lines 527-546: the excluded control and a control whose text does not
\* name the format are passed over
dfrLoopSkip ==
    /\ pc = "dfr_loop"
    /\ call.i < Len(row.controls)
    /\ \/ call.i = call.excludeDropdownIndex
       \/ LabelMismatch(row.controls[call.i + 1].label, call.format)
    /\ call' = [call EXCEPT !.i = @ + 1]
    /\ UNCHANGED <<dfrFrame, pc, pages, open, listeners, pending, saves, chosen>>

\* control i is clicked with the menus of earlier trials left open
dfrLoopTry_LeavesOpen ==
    /\ pc = "dfr_loop"
    /\ call.i < Len(row.controls)
    /\ call.i # call.excludeDropdownIndex
    /\ ~LabelMismatch(row.controls[call.i + 1].label, call.format)
    /\ open' = open \cup {call.i}
    /\ IF LinkExists(row, open \cup {call.i}, Url)
       THEN /\ call' = [call EXCEPT !.correctDropdownIndex = call.i,
                                    !.activated = Append(@, call.i)]
            /\ pc' = "dfr_found"
       ELSE /\ call' = [call EXCEPT !.i = @ + 1, !.activated = Append(@, call.i)]
            /\ pc' = "dfr_loop"
    /\ UNCHANGED <<dfrFrame, pages, listeners, pending, saves, chosen>>

\* lines 548-576: the menus are closed, control i is clicked and the link
\* with the format's href is looked up in the page
dfrLoopTry ==
    /\ pc = "dfr_loop"
    /\ call.i < Len(row.controls)
    /\ call.i # call.excludeDropdownIndex
    /\ ~LabelMismatch(row.controls[call.i + 1].label, call.format)
    /\ open' = {call.i}
    /\ IF LinkExists(row, {call.i}, Url)
       THEN /\ call' = [call EXCEPT !.correctDropdownIndex = call.i,
                                    !.activated = Append(@, call.i)]
            /\ pc' = "dfr_found"
       ELSE /\ call' = [call EXCEPT !.i = @ + 1, !.activated = Append(@, call.i)]
            /\ pc' = "dfr_loop"
    /\ UNCHANGED <<dfrFrame, pages, listeners, pending, saves, chosen>>

\* a step of the loop throws: reading the text, closing the menus, or the
\* click on the control (the menus are then closed already)
dfrLoopThrow ==
    /\ pc = "dfr_loop"
    /\ call.i < Len(row.controls)
    /\ call.i # call.excludeDropdownIndex
    /\ \/ UNCHANGED open
       \/ /\ ~LabelMismatch(row.controls[call.i + 1].label, call.format)
          /\ open' = {}
    /\ pc' = "dfr_catch"
    /\ UNCHANGED <<dfrFrame, call, pages, listeners, pending, saves, chosen>>

\* lines 579-582: no control passed
dfrLoopEnd ==
    /\ pc = "dfr_loop"
    /\ call.i >= Len(row.controls)
    /\ Return(FailObject)
    /\ UNCHANGED <<dfrFrame, pages, open, listeners, pending, saves, chosen>>

\* lines 586-598: the link is looked up again and the download listener is
\* armed with waitForEvent('download')
dfrArm ==
    /\ pc = "dfr_found"
    /\ chosen' = [chosen EXCEPT ![call.format] = call.correctDropdownIndex]
    /\ IF ~LinkExists(row, open, Url)
       THEN Return(FailObject) /\ UNCHANGED listeners
       ELSE /\ listeners' = listeners \cup {TransferId}
            /\ call' = [call EXCEPT !.armed = TRUE]
            /\ pc' = "dfr_visible"
    /\ UNCHANGED <<dfrFrame, pages, open, pending, saves>>

\* lines 600-603: scrollIntoViewIfNeeded and waitFor visible succeed only on
\* a displayed link; they may time out on any
dfrVisible ==
    /\ pc = "dfr_visible"
    /\ \/ LinkVisible(row, open, Url) /\ pc' = "dfr_click"
       \/ pc' = "dfr_retry"
    /\ UNCHANGED <<dfrFrame, call, pages, open, listeners, pending, saves, chosen>>

\* lines 604-632: the menus are closed, the row's first control is clicked
\* and the link looked up again; a link found and displayed leaves the call
\* at the click of the link looked up before (the new const is not used), a
\* link not found returns false, a failing wait or click throws
dfrRetry ==
    /\ pc = "dfr_retry"
    /\ \/ /\ open' \in {open, {}}
          /\ pc' = "dfr_catch"
          /\ UNCHANGED call
       \/ /\ open' = {0}
          /\ IF LinkExists(row, {0}, Url)
             THEN \/ /\ LinkVisible(row, {0}, Url)
                     /\ pc' = "dfr_click"
                     /\ call' = [call EXCEPT !.retried = TRUE]
                  \/ /\ pc' = "dfr_catch"
                     /\ call' = [call EXCEPT !.retried = TRUE]
             ELSE /\ call' = [call EXCEPT !.retried = TRUE,
                                          !.ret = RetBoolean(FALSE)]
                  /\ pc' = "dfr_ret"
    /\ UNCHANGED <<dfrFrame, pages, listeners, pending, saves, chosen>>

\* lines 634-665: the forced click on the link, which may start a transfer
\* and may open another page; the click throws when the link is not in the
\* page, and any of the calls may throw
dfrClick ==
    /\ pc = "dfr_click"
    /\ \/ /\ pc' = "dfr_catch"
          /\ UNCHANGED <<call, pending, pages>>
       \/ /\ LinkExists(row, open, Url)
          /\ call' = [call EXCEPT !.clicked = TRUE, !.clickedWith = open]
          /\ pending' \in {pending, pending \cup {TransferId}}
          /\ pages' \in {pages, IF pages <= MaxPopups THEN pages + 1 ELSE pages}
          /\ pc' \in {"dfr_await", "dfr_catch"}
    /\ UNCHANGED <<dfrFrame, open, listeners, saves, chosen>>

\* lines 670-680: the listener has its download; download.saveAs waits for
\* the transfer to finish and writes the file (a later file of the same name
\* replaces an earlier one), and the call returns true
dfrSave ==
    /\ pc = "dfr_await"
    /\ call.got # NoTransfer
    /\ call.finished
    /\ saves' = Append(saves, [name |-> Filename(Book, call.format), entry |-> bi,
                               format |-> call.format, from |-> call.got])
    /\ call' = [call EXCEPT !.saved = TRUE, !.ret = RetBoolean(TRUE)]
    /\ pc' = "dfr_ret"
    /\ UNCHANGED <<dfrFrame, pages, open, listeners, pending, chosen>>

\* the call after the catch of lines 682-699: timedOut when the listener
\* got no download, closed = the pages closed by the loop over pages[1..]
AfterTimeout(c) ==
    [c EXCEPT !.timedOut = (c.got = NoTransfer), !.closed = pages - 1]

\* the pages beside the first are left open
dfrTimeout_KeepsPages ==
    /\ pc = "dfr_await"
    /\ listeners' = listeners \ {TransferId}
    /\ pages' = pages
    /\ \/ /\ call' = [AfterTimeout(call) EXCEPT !.ret = RetBoolean(FALSE)]
          /\ pc' = "dfr_ret"
       \/ pc' = "dfr_catch" /\ call' = AfterTimeout(call)
    /\ UNCHANGED <<dfrFrame, open, pending, saves, chosen>>

\* lines 682-712: the listener timed out, or saveAs threw: the pages beside
\* the first are closed and the call returns false; page.content() or the
\* locator may throw
dfrTimeout ==
    /\ pc = "dfr_await"
    /\ listeners' = listeners \ {TransferId}
    /\ pages' = 1
    /\ \/ /\ call' = [AfterTimeout(call) EXCEPT !.ret = RetBoolean(FALSE)]
          /\ pc' = "dfr_ret"
       \/ pc' = "dfr_catch" /\ call' = AfterTimeout(call)
    /\ UNCHANGED <<dfrFrame, open, pending, saves, chosen>>

\* lines 723-735: the outer catch logs the message, closes the menus (a
\* failure to do so is ignored) and returns the failure object; it makes no
\* page.screenshot call, and no other line of the function does
dfrCatch ==
    /\ pc = "dfr_catch"
    /\ open' \in {{}, open}
    /\ call' = [call EXCEPT !.caught = TRUE, !.ret = FailObject]
    /\ pc' = "dfr_ret"
    /\ UNCHANGED <<dfrFrame, pages, listeners, pending, saves, chosen>>

-----------------------------------------------------------------------------
(* The browser's download event and the expiry of abandoned listeners *)

\* a started transfer raises the download event: every armed listener is
\* resolved with it, the running call's among them
DownloadEvent ==
    /\ browserOpen
    /\ \E t \in pending :
          /\ pending' = pending \ {t}
          /\ listeners' = {}
          /\ call' = IF call # NoCall /\ call.armed /\ call.got = NoTransfer
                        /\ TransferId \in listeners
                     THEN [call EXCEPT !.got = t]
                     ELSE call
    /\ UNCHANGED <<pc, browserOpen, pages, loginVars, scanVars, loopVars, open,
                   saves, unhandled, site, fnVars>>

\* the transfer download.saveAs waits for comes to its end; saveAs has no
\* timeout of its own
DownloadFinishes ==
    /\ pc = "dfr_await"
    /\ call.got # NoTransfer
    /\ ~call.finished
    /\ call' = [call EXCEPT !.finished = TRUE]
    /\ UNCHANGED <<pc, browserOpen, pages, loginVars, scanVars, loopVars, open,
                   listeners, pending, saves, unhandled, site, fnVars>>

\* a listener whose call has returned without awaiting it reaches its
\* timeout: the rejection has no handler
ListenerExpires ==
    /\ \E l \in listeners :
          /\ ~(call # NoCall /\ l = TransferId /\ pc \in {"dfr_visible", "dfr_retry",
                  "dfr_click", "dfr_await", "dfr_catch"})
          /\ listeners' = listeners \ {l}
    /\ unhandled' = TRUE
    /\ UNCHANGED <<pc, browserOpen, pages, loginVars, scanVars, loopVars, call,
                   open, pending, saves, site, fnVars>>

-----------------------------------------------------------------------------
(* download(): catch and finally; main() *)

\* the error is logged and not thrown again
downloadCatch_Swallows ==
    /\ pc = "catch"
    /\ pc' = "finally_ok"
    /\ UNCHANGED <<browserOpen, pages, loginVars, scanVars, loopVars, callVars, site, fnVars>>

\* catch (error) { console.error(...); throw error; }
downloadCatch ==
    /\ pc = "catch"
    /\ pc' = "finally_err"
    /\ UNCHANGED <<browserOpen, pages, loginVars, scanVars, loopVars, callVars, site, fnVars>>

\* the browser is closed at the end of the try block, not in a finally
downloadFinally_OnlyOnSuccess ==
    /\ pc \in {"finally_ok", "finally_err"}
    /\ browserOpen' = IF pc = "finally_ok" THEN FALSE ELSE browserOpen
    /\ pages' = IF pc = "finally_ok" THEN 0 ELSE pages
    /\ pc' = IF pc = "finally_ok" THEN "resolved" ELSE "rejected"
    /\ UNCHANGED <<loginVars, scanVars, loopVars, callVars, site, fnVars>>

\* finally { if (this.browser) await this.browser.close(); }
downloadFinally ==
    /\ pc \in {"finally_ok", "finally_err"}
    /\ browserOpen' = FALSE
    /\ pages' = 0
    /\ pc' = IF pc = "finally_ok" THEN "resolved" ELSE "rejected"
    /\ UNCHANGED <<loginVars, scanVars, loopVars, callVars, site, fnVars>>

\* main(): the success message, or the catch with process.exit(1)
main ==
    /\ pc \in {"resolved", "rejected"}
    /\ pc' = IF pc = "resolved" THEN "exit0" ELSE "exit1"
    /\ UNCHANGED <<browserOpen, pages, loginVars, scanVars, loopVars, callVars, site, fnVars>>

Next ==
    \/ Launch
    \/ LoginLoadCookies
    \/ LoginGoto
    \/ LoginWaitForm
    \/ LoginFillEmail
    \/ LoginFillPassword
    \/ LoginSubmit
    \/ LoginWaitDashboard
    \/ LoginSaveCookies
    \/ navigateToLibrary
    \/ getBooksList
    \/ downloadBooks
    \/ downloadBooksNext
    \/ dbfRelocate
    \/ dbfPdf
    \/ dbfPdfResult
    \/ dbfEpub
    \/ dbfEpubResult
    \/ dfrStart
    \/ dfrLoopSkip
    \/ dfrLoopTry
    \/ dfrLoopThrow
    \/ dfrLoopEnd
    \/ dfrArm
    \/ dfrVisible
    \/ dfrRetry
    \/ dfrClick
    \/ dfrSave
    \/ dfrTimeout
    \/ dfrCatch
    \/ DownloadEvent
    \/ DownloadFinishes
    \/ ListenerExpires
    \/ downloadCatch
    \/ downloadFinally
    \/ main

Spec == Init /\ [][Next]_vars

\* the steps the program takes by itself once it is at their position: its
\* own statements and the expiry of its bounded waits.  What only the site
\* or the file system brings about (a transfer starting or finishing, saveAs
\* throwing) is not among them.
ProgramStep ==
    \/ Launch \/ LoginLoadCookies \/ LoginGoto \/ LoginWaitForm \/ LoginFillEmail
    \/ LoginFillPassword \/ LoginSubmit \/ LoginWaitDashboard \/ LoginSaveCookies
    \/ navigateToLibrary \/ getBooksList \/ downloadBooks \/ downloadBooksNext
    \/ dbfRelocate \/ dbfPdf \/ dbfPdfResult \/ dbfEpub \/ dbfEpubResult
    \/ dfrStart \/ dfrLoopSkip \/ dfrLoopTry \/ dfrLoopEnd \/ dfrArm \/ dfrVisible
    \/ dfrRetry \/ dfrClick \/ dfrSave \/ dfrCatch
    \/ (dfrTimeout /\ call.got = NoTransfer)
    \/ downloadCatch \/ downloadFinally \/ main

\* a run in which the program keeps taking its steps
LiveSpec == Spec /\ WF_vars(ProgramStep)

-----------------------------------------------------------------------------
(* sanitizeFilename on its own: applied, and applied again to its result *)

\* the variables of a run, which the study of sanitizeFilename leaves alone
runVars == <<pc, browserOpen, pages, loginVars, scanVars, loopVars, callVars, site>>

\* the arguments: every string over a letter, the underscore, a whitespace
\* and a forbidden character up to MaxTail long, alone and after a run of
\* letters two short of the length cap
Filenames ==
    LET tails == SeqsUpTo({"a", "_", " ", "?"}, MaxTail)
        head == [n \in 1..(FilenameCap - 2) |-> "a"]
    IN  tails \cup {head \o t : t \in tails}

SanitizeInit ==
    /\ sanitizeArg \in Filenames
    /\ sanitized = <<>>
    /\ pc = "start" /\ browserOpen = FALSE /\ pages = 0
    /\ site = "session" /\ tokenFile = NoFile /\ ctxCookies = <<>>
    /\ probe = "none" /\ loginSteps = <<>> /\ typed = <<>> /\ writeFailed = FALSE
    /\ loginResult = "none" /\ listing = <<>> /\ books = <<>>
    /\ bi = 0 /\ attempted = <<>> /\ row = NoRow /\ usedDropdownIndex = -1
    /\ recorded = <<>> /\ call = NoCall /\ open = {} /\ listeners = {}
    /\ pending = {} /\ saves = <<>> /\ unhandled = FALSE
    /\ chosen = NoneChosen

\* sanitizeFilename(sanitizeArg), then sanitizeFilename of the last result
Sanitize ==
    /\ Len(sanitized) < MaxApplications
    /\ sanitized' = Append(sanitized,
                           sanitizeFilename(IF sanitized = <<>> THEN sanitizeArg
                                            ELSE sanitized[Len(sanitized)]))
    /\ UNCHANGED <<sanitizeArg, runVars>>

SanitizeSpec == SanitizeInit /\ [][Sanitize]_vars

-----------------------------------------------------------------------------
(* Properties *)

RunEnded == pc \in {"exit0", "exit1"}

\* the entry offers the format: its flag is set and a token was recorded
Offered(b, format) ==
    IF format = PDF THEN b.hasPdf /\ Truthy(b.pdfUrl)
    ELSE b.hasEpub /\ Truthy(b.epubUrl)

\* the outcomes recorded for entry e (an index into books) and a format
OutcomesOf(e, format) ==
    {n \in 1..Len(recorded) : recorded[n].entry = e /\ recorded[n].format = format}

\* the transfer of the current entry's format was saved
SavedHere(format) ==
    \E n \in 1..Len(saves) : saves[n].entry = bi /\ saves[n].format = format

\* the positions at which the current entry's row is in use
EntryPcs == {"dbf_pdf", "dbf_epub", "dfr_start", "dfr_loop", "dfr_found",
             "dfr_visible", "dfr_retry", "dfr_click", "dfr_await", "dfr_catch",
             "dfr_ret", "books_next"}

\* C1: within one downloadBookFormats call, the control index resolution
\* selects for the EPUB request is never the index it selected for the PDF
\* request of the same entry.  Stated for the outcome every reading of the
\* claim covers: the PDF transfer was saved.
C1_ExclusionInvariant ==
    (pc \in EntryPcs /\ SavedHere(PDF) /\ chosen[EPUB] # -1)
        => chosen[PDF] # chosen[EPUB]

\* C2: when downloadFormatFromRow has saved the transfer, it returns the
\* object {success: true, dropdownIndex: the index it used}, and the format
\* is recorded as succeeded.
C2_SavedIsSuccess ==
    /\ (pc = "dfr_ret" /\ call.saved) =>
           /\ call.correctDropdownIndex >= 0
           /\ call.ret = RetObject(TRUE, call.correctDropdownIndex)
    /\ \A n \in 1..Len(saves) :
           \A m \in OutcomesOf(saves[n].entry, saves[n].format) :
               recorded[m].success

\* C3: when the run has ended, downloadBooks has started on every entry of
\* the scanned catalog, in order.
C3_EveryEntryAttempted ==
    (RunEnded /\ books # <<>>) => attempted = [n \in 1..Len(books) |-> n - 1]

\* C4: when the run has ended normally, every format an entry offers has
\* exactly one recorded outcome.
C4_EveryOfferedFormatRecorded ==
    pc = "exit0" =>
        \A e \in 1..Len(books) : \A f \in Formats :
            Offered(books[e], f) => Cardinality(OutcomesOf(e - 1, f)) = 1

InteractiveSteps == <<"form", "email", "password", "submit", "dashboard", "token">>

IsPrefix(p, q) == Len(p) <= Len(q) /\ p = SubSeq(q, 1, Len(p))

\* C5 as claimed: every execution of login() either resumes with none of
\* the interactive steps, or runs all of them in order.
C5_NoPartialLogin ==
    loginResult # "none" =>
        \/ probe = "present" /\ loginSteps = <<>>
        \/ probe # "present" /\ loginSteps = InteractiveSteps

\* C5 as amended: every execution of login() that returns has either resumed
\* (marker detected, no interactive step) or, the marker not detected or no
\* token usable, run all interactive steps in order; an execution that
\* throws did not detect the marker and has run a proper prefix of the
\* interactive steps, in order.
C5_AllOrNothing ==
    /\ probe = "present" => loginSteps = <<>> /\ loginResult = "returned"
    /\ IsPrefix(loginSteps, InteractiveSteps)
    /\ loginResult = "returned" =>
           \/ probe = "present" /\ loginSteps = <<>>
           \/ probe \in {"nofile", "error", "absent"}
              /\ loginSteps = InteractiveSteps
    /\ loginResult = "threw" =>
           probe \in {"nofile", "error", "absent"}
           /\ loginSteps # InteractiveSteps

C5_Witness ==
    loginResult = "returned" /\ probe = "absent" /\ loginSteps = InteractiveSteps

C7_WriteFailureNotFatal == writeFailed => loginResult # "threw"

\* label.toLowerCase().includes(format.toLowerCase())
LabelContains(label, format) == Includes(ToLowerCase(label), ToLowerCase(format))

\* control c (0-based) passes both checks of the running call
Passes(c) ==
    /\ c # call.excludeDropdownIndex
    /\ LabelContains(row.controls[c + 1].label, call.format)
    /\ LinkExists(row, {c}, Url)

InCall == call # NoCall /\ pc \in EntryPcs

\* C8: resolution activates only controls whose label contains the format
\* name, selects the lowest-index control that passes both checks, and
\* activates no control beyond it.
C8_TwoStageSelection ==
    InCall =>
        /\ \A n \in 1..Len(call.activated) :
               LabelContains(row.controls[call.activated[n] + 1].label, call.format)
        /\ call.correctDropdownIndex # -1 =>
               /\ Passes(call.correctDropdownIndex)
               /\ \A c \in 0..(call.correctDropdownIndex - 1) : ~Passes(c)
               /\ \A n \in 1..Len(call.activated) :
                      call.activated[n] <= call.correctDropdownIndex

\* the entry offers PDF and EPUB with distinct tokens and its row holds
\* exactly the controls "pdf" and "epub", in this order
C9Scenario ==
    /\ pc \in EntryPcs
    /\ Offered(Book, PDF) /\ Offered(Book, EPUB)
    /\ Book.pdfUrl = PdfHref /\ Book.epubUrl = EpubHref
    /\ Len(row.controls) = 2
    /\ row.controls[1].label = LabelPdf
    /\ row.controls[2].label = LabelEpub

ZeroControls == pc \in EntryPcs /\ row # NoRow /\ Len(row.controls) = 0

C10_State ==
    ZeroControls =>
        /\ call # NoCall =>
               /\ ~call.armed /\ ~call.clicked /\ ~call.retried
               /\ call.activated = <<>>
               /\ TransferId \notin listeners
               /\ pc = "dfr_ret" => call.ret = FailObject
        /\ \A n \in 1..Len(recorded) :
               recorded[n].entry = bi => ~recorded[n].success

C10_Step ==
    /\ (ZeroControls /\ pc = "dfr_ret") =>
           pc' \in {pc, IF call.format = PDF THEN "dbf_epub" ELSE "books_next"}
    /\ (ZeroControls /\ pc = "books_next") => pc' \in {pc, "books"} /\ bi' >= bi

\* C10: on a row without dropdown controls (or without a token for the
\* format) downloadFormatFromRow returns {success: false, dropdownIndex: -1}
\* and has armed no listener, activated no control and clicked no link; the
\* format is recorded as failed, and the run goes on to the next format and
\* the next entry.
C10_ZeroControls == [](C10_State) /\ [][C10_Step]_vars

C10_Witness ==
    /\ ZeroControls
    /\ pc = "dfr_ret"
    /\ call.format = EPUB
    /\ call.ret = FailObject
    /\ \E n \in 1..Len(recorded) :
           recorded[n] = Outcome(bi, PDF, FALSE)
    /\ bi = 0 /\ Len(books) = 2

\* C11: when the download event does not arrive within the listener's
\* timeout, downloadFormatFromRow returns a failure (false, or the failure
\* object when the inspection after the timeout throws), only the first
\* page of the context is left open, the listener is gone and no file has
\* been saved for the entry and format.
C11_TimeoutCleanup ==
    (InCall /\ call.timedOut) =>
        /\ pc \in {"dfr_ret", "dfr_catch"}
        /\ pages = 1
        /\ ~call.saved
        /\ ~SavedHere(call.format)
        /\ TransferId \notin listeners
        /\ pc = "dfr_ret" =>
               /\ call.ret \in {RetBoolean(FALSE), FailObject}
               /\ ~ResultSuccess(call.ret)

C11_Witness ==
    /\ pc = "dfr_ret"
    /\ call.timedOut
    /\ call.closed = 1
    /\ call.ret = RetBoolean(FALSE)
    /\ pages = 1
    /\ TransferId \in pending

\* C12: every entry of the list getBooksList returns has hasPdf only with
\* a non-empty pdfUrl and hasEpub only with a non-empty epubUrl.
C12_FlagImpliesToken ==
    \A n \in 1..Len(books) :
        /\ books[n].hasPdf => Truthy(books[n].pdfUrl)
        /\ books[n].hasEpub => Truthy(books[n].epubUrl)

\* C13: sanitizeFilename applied to its own result gives that result.
C13_Idempotent ==
    \A n \in 2..Len(sanitized) : sanitized[n] = sanitized[n - 1]

\* C14: the result of sanitizeFilename is at most 150 characters long and
\* holds no forbidden character and no whitespace.
C14_CapAndCharset ==
    \A n \in 1..Len(sanitized) :
        /\ Len(sanitized[n]) <= FilenameCap
        /\ \A k \in 1..Len(sanitized[n]) :
               sanitized[n][k] \notin InvalidChars \cup WhitespaceChars

C14_Witness ==
    /\ Len(sanitized) >= 1
    /\ Len(sanitizeArg) > FilenameCap
    /\ \E k \in 1..Len(sanitizeArg) : sanitizeArg[k] \in InvalidChars
    /\ \E k \in 1..Len(sanitizeArg) : sanitizeArg[k] \in WhitespaceChars
    /\ Len(sanitized[1]) = FilenameCap

\* the run is on its way out through the catch of download()
Aborting == pc \in {"catch", "finally_err", "rejected", "exit1"}

\* C15: when login() throws (the dashboard is not reached in time) or the
\* rows of the product table never appear, the run aborts at once: no entry
\* is processed, no transfer is attempted, no file saved; the failing wait
\* leads straight to the catch of download() (which prints the error), and
\* from there the run can always go on and goes nowhere but through finally
\* and the catch of main() (which prints the error) to process.exit(1); a
\* run that exits with 0 has logged in and seen rows.
C15_FatalAbort ==
    /\ [](/\ loginResult = "threw" => Aborting /\ listing = <<>>
          /\ (Aborting /\ listing = <<>>) =>
                 /\ books = <<>> /\ attempted = <<>> /\ recorded = <<>>
                 /\ saves = <<>> /\ call = NoCall
                 /\ listeners = {} /\ pending = {}
          /\ (Aborting /\ pc # "exit1") =>
                 ENABLED (downloadCatch \/ downloadFinally \/ main)
          /\ pc = "exit0" => loginResult = "returned" /\ listing # <<>>)
    /\ [][/\ (pc = "login_wait" /\ loginResult' = "threw") => pc' = "catch"
          /\ (pc = "scan" /\ pc' # pc /\ listing' = <<>>) => pc' = "catch"
          /\ Aborting =>
                 pc' \in {pc, CASE pc = "catch" -> "finally_err"
                                [] pc = "finally_err" -> "rejected"
                                [] OTHER -> "exit1"}]_vars

C15_Witness ==
    /\ pc = "exit1"
    /\ loginResult = "threw"
    /\ loginSteps = <<"form", "email", "password", "submit">>
    /\ ~browserOpen

\* C16: every run of download() ends, whatever the site does.
C16_Terminates == <>RunEnded

\* C17: no two saved transfers, which are of different (entry, format)
\* pairs, are written to the same file name.
C17_NoOverwrite ==
    \A n, m \in 1..Len(saves) :
        (saves[n].entry # saves[m].entry \/ saves[n].format # saves[m].format)
            => saves[n].name # saves[m].name

\* C18: the cookie file never holds the email or the password login() was
\* given, and the names of the saved files do not either: what is written
\* to the cookie file is the cookies of the browsing context, or what a
\* previous run left there.
C18_CredentialsNotStored ==
    /\ \A k \in 1..Len(tokenFile) : tokenFile[k] \notin {Email, Password}
    /\ \A n \in 1..Len(saves) :
           \A k \in 1..Len(saves[n].name) : saves[n].name[k] \notin {Email, Password}
    /\ \/ tokenFile \in SiteTokenFiles(site) \cup {<<>>}
       \/ /\ JSONParse(tokenFile).ok
          /\ \A k \in 1..Len(JSONParse(tokenFile).value) :
                 \E c \in 1..Len(ctxCookies) :
                     ctxCookies[c] = JSONParse(tokenFile).value[k]

C18_Witness ==
    /\ typed = <<Email, Password>>
    /\ loginResult = "returned"
    /\ tokenFile = JSONStringify(<<Cookie("sid", "new")>>)
    /\ pc = "exit0"
    /\ Len(saves) = 2

\* C19: the list getBooksList returns holds, in listing order, one entry for
\* every row that is neither a loading placeholder nor a row whose
\* processing failed, rows after a failing row included and rows with no
\* format detected included, and each entry's index is its row's position.
C19_RowLocalErrors ==
    listing # <<>> =>
        LET Scanned(n) == ~listing[n].loading /\ ~listing[n].throws
            rows == SelectSeq([n \in 1..Len(listing) |-> n], Scanned)
        IN  /\ Len(books) = Len(rows)
            /\ \A k \in 1..Len(books) : books[k].index = rows[k] - 1

C19_Witness ==
    /\ listing = <<ThrowingRow, NoLinksRow>>
    /\ Len(books) = 1
    /\ books[1].index = 1
    /\ ~books[1].hasPdf /\ ~books[1].hasEpub
    /\ pc = "books"

\* C20: for an entry offering both formats whose row was relocated, the
\* PDF call is made first; while it runs, control stays inside it until it
\* returns; whatever it returned, the next step of downloadBookFormats is
\* the EPUB call, which is then ready to start; and an EPUB call is running
\* only when the PDF outcome of the entry has been recorded.
C20_PdfThenEpub ==
    /\ [](/\ (pc = "dfr_ret" /\ call.format = PDF) => ENABLED dbfPdfResult
          /\ (pc = "dbf_epub" /\ Offered(Book, EPUB)) => ENABLED dbfEpub
          /\ (InCall /\ call.format = EPUB /\ Offered(Book, PDF))
                 => Cardinality(OutcomesOf(bi, PDF)) = 1)
    /\ [][LET Both == Offered(Book, PDF) /\ Offered(Book, EPUB)
              Inside == {"dfr_start", "dfr_loop", "dfr_found", "dfr_visible",
                         "dfr_retry", "dfr_click", "dfr_await", "dfr_catch"}
          IN  /\ (pc = "dbf_pdf" /\ Both /\ pc' # pc)
                     => pc' = "dfr_start" /\ call'.format = PDF
              /\ (pc \in Inside /\ call.format = PDF)
                     => pc' \in Inside \cup {"dfr_ret"} /\ call'.format = PDF
              /\ (pc = "dfr_ret" /\ call.format = PDF /\ pc' # pc)
                     => pc' = "dbf_epub" /\ bi' = bi /\ books' = books
              /\ (pc = "dbf_epub" /\ Both /\ pc' # pc)
                     => pc' = "dfr_start" /\ call'.format = EPUB
                        /\ call'.ret = NoRet]_vars

C20_Witness ==
    /\ pc = "dfr_start"
    /\ call.format = EPUB
    /\ Offered(Book, PDF)
    /\ recorded = <<Outcome(bi, PDF, FALSE)>>
    /\ saves = <<>>

\* C21: when the call is about to click the download link, its listener is
\* armed and has not been resolved: nothing between the arming and the click
\* has consumed it, so the transfer the click starts is the one it observes.
C21_ArmedAtClick ==
    /\ (InCall /\ pc = "dfr_click")
           => call.armed /\ call.got = NoTransfer /\ TransferId \in listeners
    /\ (InCall /\ call.clicked) => call.armed

\* C22: at most one transfer listener is armed at any time, a call that has
\* returned has left none of its own armed, and no listener expires without
\* a handler.
C22_NoListenerLeft ==
    /\ Cardinality(listeners) <= 1
    /\ (InCall /\ pc = "dfr_ret") => TransferId \notin listeners
    /\ ~unhandled

\* C23: every saved file holds the transfer started by the click of the call
\* that saved it: the transfer of the same entry and the same format.
C23_OwnTransferSaved ==
    \A n \in 1..Len(saves) : saves[n].from = <<saves[n].entry, saves[n].format>>

\* C24: at most one control's menu is open in every state, and while
\* resolution runs the only menu that can be open is the one of the control
\* activated last: the lookup after an activation sees no menu opened by an
\* earlier trial.
C24_OneMenuOpen ==
    /\ Cardinality(open) <= 1
    /\ (InCall /\ pc \in {"dfr_loop", "dfr_found"} /\ open # {})
           => /\ call.activated # <<>>
              /\ open = {call.activated[Len(call.activated)]}

C24_Witness ==
    /\ InCall
    /\ pc = "dfr_found"
    /\ call.activated = <<0, 1>>
    /\ open = {1}
    /\ row.lazy

\* C25: whenever downloadFormatFromRow has returned, no dropdown menu is
\* open.
C25_NeutralOnReturn ==
    (InCall /\ pc = "dfr_ret") => open = {}

\* C26: the visibility retry re-opens the control that resolution selected,
\* so that after a successful retry the menu of that control is the open
\* one, and a call that ends in the retry, before any click on the link,
\* returns the failure object {success: false, dropdownIndex: -1}.
C26_RetryOnce ==
    /\ (InCall /\ call.retried /\ pc = "dfr_click")
           => open = {call.correctDropdownIndex}
    /\ (InCall /\ call.retried /\ ~call.clicked /\ pc = "dfr_ret")
           => call.ret = FailObject

\* C27: the row downloadBookFormats works on for an entry is the row of the
\* product listing at the entry's index, the row the entry was scanned from.
C27_SameRow ==
    (pc \in EntryPcs \ {"books_next"} /\ bi < Len(books))
        => row.pos = Book.index

\* C28: a call in which a step threw has returned the failure object from
\* its own catch, and a snapshot of the page was requested on the way.
C28_CaughtWithSnapshot ==
    (InCall /\ call.caught)
        => pc = "dfr_ret" /\ call.ret = FailObject /\ call.snapshots >= 1

\* C29: once download() has settled, by returning or by rethrowing, and in
\* every state of main() after it, the browser is closed.
C29_BrowserClosed ==
    pc \in {"resolved", "rejected", "exit0", "exit1"}
        => ~browserOpen /\ pages = 0

C29_Witness ==
    /\ pc = "rejected"
    /\ ~browserOpen
    /\ loginResult = "returned"
    /\ attempted = <<0, 1>>
    /\ Len(recorded) >= 1

\* C30: every step that changes the cookie file is the write of an
\* interactive login that has reached the dashboard; the load and the probe
\* of the stored cookies, the steps of a failing login, the scan and the
\* downloads leave the file as it is.
C30_TokenFileFrame ==
    [][tokenFile' # tokenFile
           => /\ pc = "login_save"
              /\ probe # "present"
              /\ loginSteps = <<"form", "email", "password", "submit", "dashboard">>]_vars

C30_Witness ==
    /\ pc = "exit0"
    /\ probe = "present"
    /\ loginSteps = <<>>
    /\ tokenFile = JSONStringify(OldCookies)
    /\ Len(saves) = 2

====
